---- MODULE Spec2Model ----
(***************************************************************************)
(* Model of the secret-contract token ledger (src/src/contract.rs,         *)
(* src/src/state.rs): the raw key-value store with its namespaced keys,    *)
(* the byte codecs, and one action per entry point of the contract.        *)
(***************************************************************************)
EXTENDS Integers, Sequences, FiniteSets, TLC

VARIABLES storage, last

vars == <<storage, last>>

----------------------------------------------------------------------------
(* Bounds and widths *)

\* Largest value of the unsigned integer type of balances, allowances and
\* total supply (u128::MAX in the source, scaled down for model checking).
U128_MAX == 2

\* Largest amount a request carries.
MaxValue == 2

\* Width in bytes of a u128 (state.rs: <[u8; 16]>::try_from).
U128_BYTES == 16

\* Width in bytes of bincode's enum variant tag (u32).
TAG_BYTES == 4

\* Width in bytes of bincode's length prefix of a string (u64).
LEN_BYTES == 8

----------------------------------------------------------------------------
(* Option<T> and StdResult<T> *)

None == [some |-> FALSE]

Ok(v) == [ok |-> TRUE, val |-> v]

Err(m) == [ok |-> FALSE, err |-> m]

\* A panic (Result::unwrap on an Err): the call aborts instead of returning.
Panic(m) == [ok |-> FALSE, err |-> m, panic |-> TRUE]

IsPanic(r) == "panic" \in DOMAIN r

Some(v) == [some |-> TRUE, val |-> v]

----------------------------------------------------------------------------
(* msg.rs: requests and responses *)

\* The record of one call made by the host: which entry point, the
\* authenticated sender, the message and the result returned.
Called(kind, sender, msg, res) ==
    [kind |-> kind, sender |-> sender, msg |-> msg, res |-> res]

\* What a handler leaves behind: the store and the StdResult it returns.
Ret(s, r) == [storage |-> s, res |-> r]

\* HandleResult with Status::Success
Success(type) == Ok([type |-> type, status |-> "Success"])

\* InitMsg
InitMsg(name, symbol, decimals) ==
    [name |-> name, symbol |-> symbol, decimals |-> decimals]

\* HandleMsg::Allowance
AllowanceMsg(owner, spender) ==
    [type |-> "Allowance", owner |-> owner, spender |-> spender]

\* HandleMsg::TransferFrom
TransferFromMsg(from, to, value) ==
    [type |-> "TransferFrom", from |-> from, to |-> to, value |-> value]

\* HandleMsg::DepositTo
DepositToMsg(to, value) == [type |-> "DepositTo", to |-> to, value |-> value]

\* HandleMsg::BurnFrom
BurnFromMsg(from, value) == [type |-> "BurnFrom", from |-> from, value |-> value]

\* HandleMsg::Transfer
TransferMsg(to, value) == [type |-> "Transfer", to |-> to, value |-> value]

\* HandleMsg::Approve
ApproveMsg(spender, value) ==
    [type |-> "Approve", spender |-> spender, value |-> value]

\* QueryMsg::BalanceOf
BalanceOfMsg(address) == [type |-> "BalanceOf", address |-> address]

----------------------------------------------------------------------------
(* Byte strings *)

NAMESPACE_STORAGE == <<99, 111, 110, 102, 105, 103>>

KEY_CONSTANTS == <<99, 111, 110, 115, 116, 97, 110, 116, 115>>

\* The total supply kept under the key of the Constants record.
KEY_TOTAL_SUPPLY_shared == KEY_CONSTANTS

KEY_TOTAL_SUPPLY == <<116, 111, 116, 97, 108, 95, 115, 117, 112, 112, 108, 121>>

NAMESPACE_BALANCES == <<98, 97, 108, 97, 110, 99, 101, 115>>

NAMESPACE_ALLOWANCES == <<97, 108, 108, 111, 119, 97, 110, 99, 119, 115>>

RECURSIVE to_le_bytes_n(_, _)
\* The n low-order bytes of v, least significant first.
to_le_bytes_n(v, n) ==
    IF n = 0 THEN <<>> ELSE <<v % 256>> \o to_le_bytes_n(v \div 256, n - 1)

RECURSIVE to_be_bytes_n(_, _)
\* The n low-order bytes of v, most significant first.
to_be_bytes_n(v, n) ==
    IF n = 0 THEN <<>> ELSE Append(to_be_bytes_n(v \div 256, n - 1), v % 256)

RECURSIVE from_be_bytes(_)
from_be_bytes(bytes) ==
    IF bytes = <<>> THEN 0
    ELSE from_be_bytes(SubSeq(bytes, 1, Len(bytes) - 1)) * 256 + bytes[Len(bytes)]

RECURSIVE from_le_bytes(_)
from_le_bytes(bytes) ==
    IF bytes = <<>> THEN 0
    ELSE bytes[1] + 256 * from_le_bytes(Tail(bytes))

\* u128::to_be_bytes
to_be_bytes(v) == to_be_bytes_n(v, U128_BYTES)

\* state.rs slice_to_u128: exactly 16 bytes, big-endian, else an error.
slice_to_u128(bytes) ==
    IF Len(bytes) = U128_BYTES
    THEN Ok(from_be_bytes(bytes))
    ELSE Err("corrupted data, can not convert to u128")

----------------------------------------------------------------------------
(* Addresses *)

\* Human-readable addresses the host may pass in a request. "ab" is one
\* the host's canonicalisation refuses.
HumanAddrs == {"creator", "alice", "bob", "ab"}

\* Addresses the host authenticates as message senders.
Senders == {"creator", "alice", "bob"}

\* Accounts that grant allowances to one another.
Holders == {"alice", "bob"}

\* deps.api.canonical_address: deterministic, injective, fallible.
canonical_address(human) ==
    CASE human = "creator" -> Ok(<<2>>)
      [] human = "alice"   -> Ok(<<1>>)
      [] human = "bob"     -> Ok(<<1, 1>>)
      [] OTHER             -> Err("Invalid input: human address too short")

\* Every canonical address the host can produce.
CanonicalAddrs ==
    {canonical_address(h).val : h \in {x \in HumanAddrs : canonical_address(x).ok}}

\* An address comparison that never finds two addresses equal.
same_address_never(a, b) == FALSE

\* CanonicalAddr == CanonicalAddr
same_address(a, b) == a = b

----------------------------------------------------------------------------
(* Raw store and namespaced views *)

\* cosmwasm_storage length prefix of a namespace: two bytes of length,
\* big-endian, then the namespace.
to_length_prefixed(namespace) ==
    <<Len(namespace) \div 256, Len(namespace) % 256>> \o namespace

RECURSIVE to_length_prefixed_nested(_)
\* Nested namespaces joined without their length prefixes.
to_length_prefixed_nested_bare(namespaces) ==
    IF namespaces = <<>> THEN <<>>
    ELSE Head(namespaces) \o to_length_prefixed_nested(Tail(namespaces))

\* cosmwasm_storage to_length_prefixed_nested: each namespace with its own
\* length prefix, one after the other.
to_length_prefixed_nested(namespaces) ==
    IF namespaces = <<>> THEN <<>>
    ELSE to_length_prefixed(Head(namespaces))
             \o to_length_prefixed_nested(Tail(namespaces))

\* Storage::get over the raw store: Some(bytes) or None.
raw_get(s, k) ==
    IF k \in DOMAIN s THEN Some(s[k]) ELSE None

\* Storage::set over the raw store.
raw_set(s, k, v) ==
    [x \in (DOMAIN s) \cup {k} |-> IF x = k THEN v ELSE s[x]]

\* PrefixedStorage::new(namespace, storage).get(key)
prefixed_get(s, namespace, key) ==
    raw_get(s, to_length_prefixed(namespace) \o key)

\* PrefixedStorage::new(namespace, storage).set(key, value)
prefixed_set(s, namespace, key, value) ==
    raw_set(s, to_length_prefixed(namespace) \o key, value)

\* PrefixedStorage::multilevel(namespaces, storage).get(key)
multilevel_get(s, namespaces, key) ==
    raw_get(s, to_length_prefixed_nested(namespaces) \o key)

\* PrefixedStorage::multilevel(namespaces, storage).set(key, value)
multilevel_set(s, namespaces, key, value) ==
    raw_set(s, to_length_prefixed_nested(namespaces) \o key, value)

----------------------------------------------------------------------------
(* bincode codec of the structured records *)

\* One character of the standard base64 alphabet, as its ASCII code.
b64char(i) ==
    IF i < 26 THEN 65 + i
    ELSE IF i < 52 THEN 97 + (i - 26)
    ELSE IF i < 62 THEN 48 + (i - 52)
    ELSE IF i = 62 THEN 43 ELSE 47

\* The 6-bit value of a base64 character, or -1.
b64val(c) ==
    IF c >= 65 /\ c <= 90 THEN c - 65
    ELSE IF c >= 97 /\ c <= 122 THEN c - 97 + 26
    ELSE IF c >= 48 /\ c <= 57 THEN c - 48 + 52
    ELSE IF c = 43 THEN 62
    ELSE IF c = 47 THEN 63 ELSE -1

RECURSIVE to_base64(_)
\* Binary::to_base64 (CanonicalAddr serialises as a base64 string).
to_base64(b) ==
    IF b = <<>> THEN <<>>
    ELSE IF Len(b) = 1 THEN
        <<b64char(b[1] \div 4), b64char((b[1] % 4) * 16), 61, 61>>
    ELSE IF Len(b) = 2 THEN
        <<b64char(b[1] \div 4),
          b64char((b[1] % 4) * 16 + b[2] \div 16),
          b64char((b[2] % 16) * 4), 61>>
    ELSE
        <<b64char(b[1] \div 4),
          b64char((b[1] % 4) * 16 + b[2] \div 16),
          b64char((b[2] % 16) * 4 + b[3] \div 64),
          b64char(b[3] % 64)>> \o to_base64(SubSeq(b, 4, Len(b)))

RECURSIVE from_base64(_)
\* Binary::from_base64: the bytes, or an error on malformed text.
from_base64(t) ==
    IF t = <<>> THEN Ok(<<>>)
    ELSE IF Len(t) < 4 THEN Err("Invalid base64")
    ELSE
        LET v1 == b64val(t[1])
            v2 == b64val(t[2])
            v3 == b64val(t[3])
            v4 == b64val(t[4])
        IN  IF v1 < 0 \/ v2 < 0 THEN Err("Invalid base64")
            ELSE IF t[3] = 61 THEN
                IF Len(t) = 4 /\ t[4] = 61 /\ v2 % 16 = 0
                THEN Ok(<<v1 * 4 + v2 \div 16>>)
                ELSE Err("Invalid base64")
            ELSE IF v3 < 0 THEN Err("Invalid base64")
            ELSE IF t[4] = 61 THEN
                IF Len(t) = 4 /\ v3 % 4 = 0
                THEN Ok(<<v1 * 4 + v2 \div 16, (v2 % 16) * 16 + v3 \div 4>>)
                ELSE Err("Invalid base64")
            ELSE IF v4 < 0 THEN Err("Invalid base64")
            ELSE
                LET more == from_base64(SubSeq(t, 5, Len(t)))
                IN  IF more.ok
                    THEN Ok(<<v1 * 4 + v2 \div 16,
                              (v2 % 16) * 16 + v3 \div 4,
                              (v3 % 4) * 64 + v4>> \o more.val)
                    ELSE more

\* bincode of a string or byte string: u64 little-endian length, then bytes.
serialize_str(b) == to_le_bytes_n(Len(b), LEN_BYTES) \o b

\* bincode read of a string at the head of bytes: the string and the rest.
deserialize_str(bytes) ==
    IF Len(bytes) < LEN_BYTES THEN Err("unexpected end of input")
    ELSE
        LET n == from_le_bytes(SubSeq(bytes, 1, LEN_BYTES))
        IN  IF Len(bytes) < LEN_BYTES + n THEN Err("unexpected end of input")
            ELSE Ok([str  |-> SubSeq(bytes, LEN_BYTES + 1, LEN_BYTES + n),
                     rest |-> SubSeq(bytes, LEN_BYTES + n + 1, Len(bytes))])

\* serialize::<Constants>: name, symbol, decimals, owner (as base64 text).
serialize_Constants(c) ==
    serialize_str(c.name) \o serialize_str(c.symbol) \o <<c.decimals>>
        \o serialize_str(to_base64(c.owner))

\* deserialize::<Constants>
deserialize_Constants(bytes) ==
    LET name == deserialize_str(bytes)
    IN  IF ~name.ok THEN Err("Error serializing type Constants")
        ELSE
        LET symbol == deserialize_str(name.val.rest)
        IN  IF ~symbol.ok \/ symbol.val.rest = <<>>
            THEN Err("Error serializing type Constants")
            ELSE
            LET decimals == Head(symbol.val.rest)
                text == deserialize_str(Tail(symbol.val.rest))
            IN  IF ~text.ok THEN Err("Error serializing type Constants")
                ELSE
                LET owner == from_base64(text.val.str)
                IN  IF ~owner.ok THEN Err("Error serializing type Constants")
                    ELSE Ok([name     |-> name.val.str,
                             symbol   |-> symbol.val.str,
                             decimals |-> decimals,
                             owner    |-> owner.val])

\* serialize::<Allowance>: the amount as 16 little-endian bytes.
serialize_Allowance(allowance) == to_le_bytes_n(allowance.amount, U128_BYTES)

\* deserialize::<Allowance>
deserialize_Allowance(bytes) ==
    IF Len(bytes) < U128_BYTES THEN Err("Error serializing type Allowance")
    ELSE Ok([amount |-> from_le_bytes(SubSeq(bytes, 1, U128_BYTES))])

\* deserialize::<StdResult<Allowance>>, the instance get_allowance's match
\* arm `deserialize(&bytes)?` is typed at: a u32 variant tag (0 = Ok,
\* 1 = Err), then the variant's content. The value is the StdResult that
\* get_allowance returns for a stored entry: a decode failure propagated by
\* `?`, or the decoded StdResult itself.
deserialize_StdResult_Allowance(bytes) ==
    IF Len(bytes) < TAG_BYTES THEN Err("Error serializing type StdResult<Allowance>")
    ELSE
        LET tag == from_le_bytes(SubSeq(bytes, 1, TAG_BYTES))
            content == SubSeq(bytes, TAG_BYTES + 1, Len(bytes))
        IN  IF tag = 0 THEN
                LET a == deserialize_Allowance(content)
                IN  IF a.ok THEN Ok(a.val)
                    ELSE Err("Error serializing type StdResult<Allowance>")
            ELSE IF tag = 1 THEN
                \* the Err variant: whatever StdError the content decodes
                \* to, or the failure to decode one
                Err("stored allowance read as StdResult::Err")
            ELSE Err("Error serializing type StdResult<Allowance>")

----------------------------------------------------------------------------
(* state.rs: typed access to the store *)

\* ReadOnlyContractStorageImpl::constants
constants(s) ==
    LET bytes == prefixed_get(s, NAMESPACE_STORAGE, KEY_CONSTANTS)
    IN  IF ~bytes.some THEN Err("no constants in storage")
        ELSE deserialize_Constants(bytes.val)

\* ContractStorage::set_constants
set_constants(s, c) ==
    prefixed_set(s, NAMESPACE_STORAGE, KEY_CONSTANTS, serialize_Constants(c))

\* ReadOnlyContractStorageImpl::total_supply
total_supply(s) ==
    LET bytes == prefixed_get(s, NAMESPACE_STORAGE, KEY_TOTAL_SUPPLY)
    IN  IF ~bytes.some THEN Err("no constants in storage")
        ELSE slice_to_u128(bytes.val)

\* ContractStorage::set_total_supply
set_total_supply(s, value) ==
    prefixed_set(s, NAMESPACE_STORAGE, KEY_TOTAL_SUPPLY, to_be_bytes(value))

\* balance that never finds the stored entry.
balance_absent(s, account) == Ok(0)

\* ReadonlyBalancesImpl::balance: 0 when absent; unwrap panics on bytes
\* that are not a u128.
balance(s, account) ==
    LET bytes == prefixed_get(s, NAMESPACE_BALANCES, account)
    IN  IF ~bytes.some THEN Ok(0)
        ELSE LET v == slice_to_u128(bytes.val)
             IN  IF v.ok THEN v
                 ELSE Panic("called Result::unwrap on an Err value")

\* set_balance writing through the config namespace.
set_balance_config(s, address, value) ==
    prefixed_set(s, NAMESPACE_STORAGE, address, to_be_bytes(value))

\* Balances::set_balance
set_balance(s, address, value) ==
    prefixed_set(s, NAMESPACE_BALANCES, address, to_be_bytes(value))

\* get_allowance that reports a missing entry as an error.
get_allowance_strict(s, owner, spender) ==
    LET bytes == multilevel_get(s, <<NAMESPACE_ALLOWANCES, owner>>, spender)
    IN  IF bytes.some THEN deserialize_StdResult_Allowance(bytes.val)
        ELSE Err("no allowance in storage")

\* get_allowance: amount 0 when absent, else the stored bytes decoded.
get_allowance(s, owner, spender) ==
    LET bytes == multilevel_get(s, <<NAMESPACE_ALLOWANCES, owner>>, spender)
    IN  IF bytes.some THEN deserialize_StdResult_Allowance(bytes.val)
        ELSE Ok([amount |-> 0])

\* set_allowance
set_allowance(s, owner, spender, allowance) ==
    multilevel_set(s, <<NAMESPACE_ALLOWANCES, owner>>, spender,
                   serialize_Allowance(allowance))

----------------------------------------------------------------------------
(* u128 arithmetic *)

\* wrapping_add in place of checked_add.
checked_add_wrapping(a, b) == Some((a + b) % (U128_MAX + 1))

\* an addition that is not checked at all.
checked_add_unchecked(a, b) == Some(a + b)

\* u128::checked_add
checked_add(a, b) == IF a + b > U128_MAX THEN None ELSE Some(a + b)

\* saturating_sub in place of checked_sub.
checked_sub_saturating(a, b) == IF a < b THEN Some(0) ELSE Some(a - b)

\* u128::checked_sub
checked_sub(a, b) == IF a < b THEN None ELSE Some(a - b)

\* u128::saturating_add
saturating_add(a, b) == IF a + b > U128_MAX THEN U128_MAX ELSE a + b

----------------------------------------------------------------------------
(* contract.rs: entry points.  Each handler maps the store and a request  *)
(* to the store it leaves behind and the StdResult it returns.            *)

\* is_zero that never reports zero.
is_zero_never(value) == FALSE

\* Uint128::is_zero
is_zero(value) == value = 0

\* init
init(s, env_sender, msg) ==
    LET owner == canonical_address(env_sender)
    IN  IF ~owner.ok THEN Ret(s, owner)
        ELSE
        LET c == [name     |-> msg.name,
                  symbol   |-> msg.symbol,
                  decimals |-> msg.decimals,
                  owner    |-> owner.val]
            s1 == set_constants(s, c)
            s2 == set_total_supply(s1, 0)
        IN  Ret(s2, Ok([type |-> "InitResponse"]))

\* deposit_to without the owner check.
deposit_unauthorized_nobody(sender, contract_owner) == FALSE

\* deposit_to: the caller is not the contract owner
deposit_unauthorized(sender, contract_owner) == sender # contract_owner

\* deposit_to
deposit_to(s, env_sender, to, value) ==
    IF is_zero(value) THEN Ret(s, Err("Can not deposit zero tokens"))
    ELSE
    LET sender == canonical_address(env_sender)
        c == constants(s)
    IN  IF ~sender.ok THEN Ret(s, sender)
        ELSE IF ~c.ok THEN Ret(s, c)
        ELSE IF deposit_unauthorized(sender.val, c.val.owner)
        THEN Ret(s, Err("Only contract owner can deposit tokens"))
        ELSE
        LET ts == total_supply(s)
        IN  IF ~ts.ok THEN Ret(s, ts)
            ELSE
            LET new_total == checked_add(ts.val, value)
            IN  IF ~new_total.some THEN Ret(s, Err("Total supply overflow"))
                ELSE
                LET s1 == set_total_supply(s, new_total.val)
                    account_owner == canonical_address(to)
                IN  IF ~account_owner.ok THEN Ret(s1, account_owner)
                    ELSE
                    LET sender_balance == balance(s1, account_owner.val)
                    IN  IF IsPanic(sender_balance) THEN Ret(s1, sender_balance)
                        ELSE
                        LET new_balance == checked_add(sender_balance.val, value)
                        IN  IF new_balance.some
                            THEN Ret(set_balance(s1, account_owner.val, new_balance.val),
                                     Success("DepositTo"))
                            ELSE Ret(s1, Err("Account balance overflow"))

\* burn_from without the authorisation test.
burn_unauthorized_nobody(sender, contract_owner, account_owner) == FALSE

\* burn_from with || in place of && in the authorisation test.
burn_unauthorized_either(sender, contract_owner, account_owner) ==
    sender # contract_owner \/ sender # account_owner

\* burn_from: the caller is neither the contract owner nor the account
burn_unauthorized(sender, contract_owner, account_owner) ==
    sender # contract_owner /\ sender # account_owner

\* burn_from
burn_from(s, env_sender, from, value) ==
    IF is_zero(value) THEN Ret(s, Err("Can not burn zero tokens"))
    ELSE
    LET sender == canonical_address(env_sender)
        account_owner == canonical_address(from)
        c == constants(s)
    IN  IF ~sender.ok THEN Ret(s, sender)
        ELSE IF ~account_owner.ok THEN Ret(s, account_owner)
        ELSE IF ~c.ok THEN Ret(s, c)
        ELSE IF burn_unauthorized(sender.val, c.val.owner, account_owner.val)
        THEN Ret(s, Err("Only contract owner or account owner can burn tokens"))
        ELSE
        LET sender_balance == balance(s, account_owner.val)
        IN  IF IsPanic(sender_balance) THEN Ret(s, sender_balance)
            ELSE
            LET new_balance == checked_sub(sender_balance.val, value)
            IN  IF ~new_balance.some THEN Ret(s, Err("Account balance underflow"))
                ELSE
                LET s1 == set_balance(s, account_owner.val, new_balance.val)
                    ts == total_supply(s1)
                IN  IF ~ts.ok THEN Ret(s1, ts)
                    ELSE
                    LET new_total == checked_sub(ts.val, value)
                    IN  IF new_total.some
                        THEN Ret(set_total_supply(s1, new_total.val),
                                 Success("BurnFrom"))
                        ELSE Ret(s1, Err("Total supply underflow"))

\* transfer
transfer(s, env_sender, to, value) ==
    IF is_zero(value) THEN Ret(s, Err("Can not transfer zero tokens"))
    ELSE
    LET sender == canonical_address(env_sender)
        recipient == canonical_address(to)
    IN  IF ~sender.ok THEN Ret(s, sender)
        ELSE IF ~recipient.ok THEN Ret(s, recipient)
        ELSE IF same_address(sender.val, recipient.val)
        THEN Ret(s, Err("Can not sent tokens to self"))
        ELSE
        LET sender_balance == balance(s, sender.val)
            recipient_balance == balance(s, recipient.val)
        IN  IF IsPanic(sender_balance) THEN Ret(s, sender_balance)
            ELSE IF IsPanic(recipient_balance) THEN Ret(s, recipient_balance)
            ELSE
            LET new_sender_balance == checked_sub(sender_balance.val, value)
                new_recipient_balance == checked_add(recipient_balance.val, value)
            IN  IF ~new_sender_balance.some
                THEN Ret(s, Err("Sender balance underflow"))
                ELSE IF ~new_recipient_balance.some
                THEN Ret(s, Err("Recipient balance overflow"))
                ELSE
                LET s1 == set_balance(s, sender.val, new_sender_balance.val)
                    s2 == set_balance(s1, recipient.val, new_recipient_balance.val)
                IN  Ret(s2, Success("Transfer"))

\* transfer_from
transfer_from(s, env_sender, from, to, value) ==
    IF is_zero(value) THEN Ret(s, Err("Can not transfer zero tokens"))
    ELSE
    LET sender == canonical_address(env_sender)
        account_owner == canonical_address(from)
        recipient == canonical_address(to)
    IN  IF ~sender.ok THEN Ret(s, sender)
        ELSE IF ~account_owner.ok THEN Ret(s, account_owner)
        ELSE IF ~recipient.ok THEN Ret(s, recipient)
        ELSE IF same_address(sender.val, account_owner.val)
        THEN Ret(s, Err("To transfer tokens from your own account use transfer function"))
        ELSE IF same_address(account_owner.val, recipient.val)
        THEN Ret(s, Err("Can not transfer tokens: from and to addresses are same"))
        ELSE
        LET allowance == get_allowance(s, account_owner.val, sender.val)
        IN  IF ~allowance.ok THEN Ret(s, allowance)
            ELSE
            LET account_balance == balance(s, account_owner.val)
                recipient_balance == balance(s, recipient.val)
            IN  IF IsPanic(account_balance) THEN Ret(s, account_balance)
                ELSE IF IsPanic(recipient_balance) THEN Ret(s, recipient_balance)
                ELSE
                LET new_allowance == checked_sub(allowance.val.amount, value)
                    new_account_balance == checked_sub(account_balance.val, value)
                    new_recipient_balance == checked_add(recipient_balance.val, value)
                IN  IF ~new_allowance.some
                    THEN Ret(s, Err("Not enough allowance"))
                    ELSE IF ~new_account_balance.some
                    THEN Ret(s, Err("Account balance underflow"))
                    ELSE IF ~new_recipient_balance.some
                    THEN Ret(s, Err("Recipient balance overflow"))
                    ELSE
                    LET s1 == set_balance(s, account_owner.val, new_account_balance.val)
                        s2 == set_balance(s1, recipient.val, new_recipient_balance.val)
                        s3 == set_allowance(s2, account_owner.val, sender.val,
                                            [amount |-> new_allowance.val])
                    IN  Ret(s3, Success("TransferFrom"))

\* approve
approve(s, env_sender, spender_human, value) ==
    IF is_zero(value) THEN Ret(s, Err("Can not approve zero tokens"))
    ELSE
    LET sender == canonical_address(env_sender)
        spender == canonical_address(spender_human)
    IN  IF ~sender.ok THEN Ret(s, sender)
        ELSE IF ~spender.ok THEN Ret(s, spender)
        ELSE IF same_address(sender.val, spender.val)
        THEN Ret(s, Err("Can not approve to self"))
        ELSE
        LET allowance == get_allowance(s, sender.val, spender.val)
        IN  IF ~allowance.ok THEN Ret(s, allowance)
            ELSE
            LET amount == saturating_add(allowance.val.amount, value)
            IN  Ret(set_allowance(s, sender.val, spender.val, [amount |-> amount]),
                    Success("Approve"))

\* allowance that stores the amount it looked up.
allowance_storing(s, owner, spender) ==
    LET owner_address == canonical_address(owner)
        spender_address == canonical_address(spender)
    IN  IF ~owner_address.ok THEN Ret(s, owner_address)
        ELSE IF ~spender_address.ok THEN Ret(s, spender_address)
        ELSE
        LET a == get_allowance(s, owner_address.val, spender_address.val)
        IN  IF ~a.ok THEN Ret(s, a)
            ELSE Ret(set_allowance(s, owner_address.val, spender_address.val, a.val),
                     Ok([type    |-> "Allowance",
                         owner   |-> owner,
                         spender |-> spender,
                         value   |-> a.val.amount]))

\* allowance (dispatched through handle)
allowance(s, owner, spender) ==
    LET owner_address == canonical_address(owner)
        spender_address == canonical_address(spender)
    IN  IF ~owner_address.ok THEN Ret(s, owner_address)
        ELSE IF ~spender_address.ok THEN Ret(s, spender_address)
        ELSE
        LET a == get_allowance(s, owner_address.val, spender_address.val)
        IN  IF ~a.ok THEN Ret(s, a)
            ELSE Ret(s, Ok([type    |-> "Allowance",
                            owner   |-> owner,
                            spender |-> spender,
                            value   |-> a.val.amount]))

\* handle
handle(s, env_sender, msg) ==
    CASE msg.type = "DepositTo"    -> deposit_to(s, env_sender, msg.to, msg.value)
      [] msg.type = "BurnFrom"     -> burn_from(s, env_sender, msg.from, msg.value)
      [] msg.type = "Transfer"     -> transfer(s, env_sender, msg.to, msg.value)
      [] msg.type = "TransferFrom" -> transfer_from(s, env_sender, msg.from, msg.to, msg.value)
      [] msg.type = "Approve"      -> approve(s, env_sender, msg.spender, msg.value)
      [] msg.type = "Allowance"    -> allowance(s, msg.owner, msg.spender)

\* query_name
query_name(s) ==
    LET c == constants(s)
    IN  IF c.ok THEN Ok([type |-> "Name", name |-> c.val.name]) ELSE c

\* query_symbol
query_symbol(s) ==
    LET c == constants(s)
    IN  IF c.ok THEN Ok([type |-> "Symbol", symbol |-> c.val.symbol]) ELSE c

\* query_decimals
query_decimals(s) ==
    LET c == constants(s)
    IN  IF c.ok THEN Ok([type |-> "Decimals", decimals |-> c.val.decimals]) ELSE c

\* query_total_supply
query_total_supply(s) ==
    LET ts == total_supply(s)
    IN  IF ts.ok THEN Ok([type |-> "TotalSupply", total_supply |-> ts.val]) ELSE ts

\* query_balance_of
query_balance_of(s, address) ==
    LET a == canonical_address(address)
    IN  IF ~a.ok THEN a
        ELSE
        LET b == balance(s, a.val)
        IN  IF IsPanic(b) THEN b
            ELSE Ok([type |-> "BalanceOf", balance |-> b.val])

\* query
query(s, msg) ==
    CASE msg.type = "Name"        -> query_name(s)
      [] msg.type = "Symbol"      -> query_symbol(s)
      [] msg.type = "Decimals"    -> query_decimals(s)
      [] msg.type = "TotalSupply" -> query_total_supply(s)
      [] msg.type = "BalanceOf"   -> query_balance_of(s, msg.address)

----------------------------------------------------------------------------
(* The state machine: the host calls init once, then handle and query,    *)
(* one call at a time: it takes the response of a call before it          *)
(* dispatches the next one.                                               *)

\* No response is pending.
NoCall == Called("none", "", None, None)

\* The store before init.
EmptyStorage == <<>>

\* The sender of the init message.
Creator == "creator"

\* The init message of the repository's tests: "test", "!@#$", 69.
InitMsgs == {InitMsg(<<116, 101, 115, 116>>, <<33, 64, 35, 36>>, 69)}

\* Amounts a request can carry: a Uint128 no larger than MaxValue.
Values == {v \in 0 .. MaxValue : v <= U128_MAX}

Init ==
    \E msg \in InitMsgs :
        LET r == init(EmptyStorage, Creator, msg)
        IN  /\ storage = r.storage
            /\ last = Called("init", Creator, msg, r.res)

\* One call of handle by the host.
Handle(env_sender, msg) ==
    LET r == handle(storage, env_sender, msg)
    IN  /\ last = NoCall
        /\ storage' = r.storage
        /\ last' = Called("handle", env_sender, msg, r.res)

DepositTo ==
    \E env_sender \in Senders, to \in HumanAddrs, value \in Values :
        Handle(env_sender, DepositToMsg(to, value))

BurnFrom ==
    \E env_sender \in Senders, from \in HumanAddrs, value \in Values :
        Handle(env_sender, BurnFromMsg(from, value))

Transfer ==
    \E env_sender \in Senders, to \in HumanAddrs, value \in Values :
        Handle(env_sender, TransferMsg(to, value))

TransferFrom ==
    \E env_sender \in Senders, from \in HumanAddrs, to \in HumanAddrs, value \in Values :
        Handle(env_sender, TransferFromMsg(from, to, value))

\* Approvals that can store an entry are drawn between the Holders.
Approve ==
    \E env_sender \in Senders, spender \in HumanAddrs, value \in Values :
        /\ \/ {env_sender, spender} \subseteq Holders
           \/ env_sender = spender
           \/ ~canonical_address(spender).ok
           \/ value = 0
        /\ Handle(env_sender, ApproveMsg(spender, value))

\* allowance does not look at the sender.
AllowanceOf ==
    \E owner \in HumanAddrs, spender \in HumanAddrs :
        Handle(Creator, AllowanceMsg(owner, spender))

QueryMsgs ==
    {[type |-> t] : t \in {"Name", "Symbol", "Decimals", "TotalSupply"}}
        \cup {BalanceOfMsg(a) : a \in HumanAddrs}

\* One call of query by the host: the store is only read.
Query ==
    \E msg \in QueryMsgs :
        /\ last = NoCall
        /\ storage' = storage
        /\ last' = Called("query", "", msg, query(storage, msg))

\* The host takes the pending response.
Return ==
    /\ last # NoCall
    /\ last' = NoCall
    /\ storage' = storage

Next ==
    \/ Return
    \/ DepositTo
    \/ BurnFrom
    \/ Transfer
    \/ TransferFrom
    \/ Approve
    \/ AllowanceOf
    \/ Query

Spec == Init /\ [][Next]_vars

----------------------------------------------------------------------------
(* Views of the store used to state the properties *)

\* Balance of a canonical address as the ledger reads it.
Bal(s, a) == balance(s, a).val

\* Stored total supply.
Supply(s) == total_supply(s).val

RECURSIVE SumBal(_, _)
SumBal(s, addrs) ==
    IF addrs = {} THEN 0
    ELSE LET a == CHOOSE x \in addrs : TRUE
         IN  Bal(s, a) + SumBal(s, addrs \ {a})

TypeOK ==
    /\ total_supply(storage).ok
    /\ constants(storage).ok
    /\ \A a \in CanonicalAddrs : balance(storage, a).ok

\* Raw stored allowance entry of a pair of canonical addresses.
AllowanceEntry(s, owner, spender) ==
    multilevel_get(s, <<NAMESPACE_ALLOWANCES, owner>>, spender)

\* Canonical address of a human address that resolves.
Addr(human) == canonical_address(human).val

Resolves(human) == canonical_address(human).ok

\* The owner recorded by init.
ContractOwner(s) == constants(s).val.owner

\* The step is a call of handle with a message of the given type.
Handled(type) == last'.kind = "handle" /\ last'.msg.type = type

\* The pending response is that of a handle call of the given type.
IsHandled(type) == last.kind = "handle" /\ last.msg.type = type

\* The step leaves every balance and the total supply as they were.
LedgerUnchanged ==
    /\ Supply(storage') = Supply(storage)
    /\ \A a \in CanonicalAddrs : Bal(storage', a) = Bal(storage, a)

\* The step leaves every stored allowance entry as it was.
AllowancesUnchanged ==
    \A o \in CanonicalAddrs, sp \in CanonicalAddrs :
        AllowanceEntry(storage', o, sp) = AllowanceEntry(storage, o, sp)

\* Error kinds, by the messages the handlers return.
InvalidArgumentErrs ==
    {"Can not deposit zero tokens", "Can not burn zero tokens",
     "Can not transfer zero tokens", "Can not approve zero tokens",
     "Can not sent tokens to self", "Can not approve to self",
     "To transfer tokens from your own account use transfer function",
     "Can not transfer tokens: from and to addresses are same"}

UnauthorizedErrs ==
    {"Only contract owner can deposit tokens",
     "Only contract owner or account owner can burn tokens"}

OverflowErrs ==
    {"Total supply overflow", "Account balance overflow", "Recipient balance overflow"}

UnderflowErrs ==
    {"Account balance underflow", "Total supply underflow", "Sender balance underflow"}

Failed(errs) == ~last'.res.ok /\ last'.res.err \in errs

MutatingTypes == {"DepositTo", "BurnFrom", "Transfer", "TransferFrom", "Approve"}

----------------------------------------------------------------------------
(* Properties *)

\* C1: in every reachable state the stored total supply equals the sum of
\* all stored account balances.
C1_SupplyIsSumOfBalances ==
    Supply(storage) = SumBal(storage, CanonicalAddrs)

\* C2: a deposit with value > 0 by a caller that is not the contract owner
\* is rejected as unauthorized, and the balance of `to` and the total supply
\* (indeed the whole store) stay as they were.
C2_DepositByNonOwnerRejected ==
    [][(/\ Handled("DepositTo")
        /\ last'.msg.value > 0
        /\ Addr(last'.sender) # ContractOwner(storage))
       => (/\ Failed(UnauthorizedErrs)
           /\ LedgerUnchanged
           /\ storage' = storage)]_vars

\* A non-owner's deposit of a positive amount to a resolvable account was
\* rejected.
C2_Witness ==
    /\ IsHandled("DepositTo")
    /\ last.msg.value > 0
    /\ Resolves(last.msg.to)
    /\ Addr(last.sender) # ContractOwner(storage)
    /\ ~last.res.ok

\* C3: a burn of value > 0 from an account succeeds only if the caller is
\* the contract owner or the account itself; by any other caller it is
\* rejected as unauthorized and leaves balance and supply unchanged; by the
\* account or the owner, with value <= Balance(from), it succeeds.
C3_BurnAuthorisation ==
    [][(Handled("BurnFrom") /\ last'.msg.value > 0 /\ Resolves(last'.msg.from))
       => LET caller == Addr(last'.sender)
              from == Addr(last'.msg.from)
              authorised == caller = ContractOwner(storage) \/ caller = from
          IN  /\ last'.res.ok => authorised
              /\ ~authorised => (Failed(UnauthorizedErrs) /\ LedgerUnchanged)
              /\ (authorised /\ last'.msg.value <= Bal(storage, from))
                    => last'.res.ok]_vars

\* An account that is not the contract owner burnt from itself.
C3_Witness ==
    /\ IsHandled("BurnFrom")
    /\ last.res.ok
    /\ Addr(last.sender) = Addr(last.msg.from)
    /\ Addr(last.sender) # ContractOwner(storage)

\* C4: a successful deposit increases the balance of `to` and the total
\* supply by exactly value, changes no other balance, and balance_of(to)
\* and total_supply() then return the increased values.
C4_DepositCredits ==
    [][(Handled("DepositTo") /\ last'.res.ok)
       => LET to == Addr(last'.msg.to)
              value == last'.msg.value
          IN  /\ Bal(storage', to) = Bal(storage, to) + value
              /\ Supply(storage') = Supply(storage) + value
              /\ \A a \in CanonicalAddrs \ {to} :
                     Bal(storage', a) = Bal(storage, a)
              /\ query(storage', BalanceOfMsg(last'.msg.to))
                     = Ok([type |-> "BalanceOf",
                           balance |-> Bal(storage, to) + value])
              /\ query(storage', [type |-> "TotalSupply"])
                     = Ok([type |-> "TotalSupply",
                           total_supply |-> Supply(storage) + value])]_vars

\* A deposit succeeded onto an account that already held tokens.
C4_Witness ==
    /\ IsHandled("DepositTo")
    /\ last.res.ok
    /\ Bal(storage, Addr(last.msg.to)) > last.msg.value

\* C5 as stated: a successful burn decreases balance and supply by exactly
\* value, and every burn with value > Balance(from) is rejected with
\* Underflow, leaving balance and supply unchanged.
C5_Original ==
    [][(Handled("BurnFrom") /\ Resolves(last'.msg.from))
       => LET from == Addr(last'.msg.from)
              value == last'.msg.value
          IN  /\ last'.res.ok =>
                    /\ Bal(storage', from) = Bal(storage, from) - value
                    /\ Supply(storage') = Supply(storage) - value
              /\ value > Bal(storage, from) =>
                    (Failed(UnderflowErrs) /\ LedgerUnchanged)]_vars

\* C5 amended: a successful burn decreases balance and supply by exactly
\* value; a burn by the contract owner or by the account itself with
\* value > Balance(from) is rejected with Underflow; every burn with
\* value > Balance(from) is rejected and leaves balance and supply unchanged.
C5_BurnDebits ==
    [][(Handled("BurnFrom") /\ Resolves(last'.msg.from))
       => LET caller == Addr(last'.sender)
              from == Addr(last'.msg.from)
              value == last'.msg.value
          IN  /\ last'.res.ok =>
                    /\ Bal(storage', from) = Bal(storage, from) - value
                    /\ Supply(storage') = Supply(storage) - value
              /\ value > Bal(storage, from) =>
                    (~last'.res.ok /\ LedgerUnchanged)
              /\ (/\ value > Bal(storage, from)
                  /\ (caller = ContractOwner(storage) \/ caller = from))
                    => Failed(UnderflowErrs)]_vars

\* An authorised burn of more than a positive balance was rejected.
C5_Witness ==
    /\ IsHandled("BurnFrom")
    /\ Resolves(last.msg.from)
    /\ ~last.res.ok
    /\ last.res.err \in UnderflowErrs
    /\ Bal(storage, Addr(last.msg.from)) > 0
    /\ last.msg.value > Bal(storage, Addr(last.msg.from))

\* C6: every mutating operation called with value = 0 is rejected,
\* whoever calls it, and writes nothing.
C6_ZeroValueRejected ==
    [][(/\ last'.kind = "handle"
        /\ last'.msg.type \in MutatingTypes
        /\ last'.msg.value = 0)
       => (/\ ~last'.res.ok
           /\ storage' = storage
           /\ LedgerUnchanged
           /\ AllowancesUnchanged)]_vars

\* The contract owner's deposit of zero to a resolvable account was rejected.
C6_Witness ==
    /\ IsHandled("DepositTo")
    /\ last.msg.value = 0
    /\ Resolves(last.msg.to)
    /\ Addr(last.sender) = ContractOwner(storage)
    /\ ~last.res.ok

\* C7: deposit is all-or-nothing: when it returns an error, neither the
\* total supply nor any balance has been written.
C7_DepositAllOrNothing ==
    [][(Handled("DepositTo") /\ ~last'.res.ok)
       => (LedgerUnchanged /\ storage' = storage)]_vars

C10_TransferMoves ==
    [][(Handled("Transfer") /\ last'.res.ok)
       => LET caller == Addr(last'.sender)
              to == Addr(last'.msg.to)
              value == last'.msg.value
          IN  /\ Bal(storage', caller) = Bal(storage, caller) - value
              /\ Bal(storage', to) = Bal(storage, to) + value
              /\ Supply(storage') = Supply(storage)
              /\ \A a \in CanonicalAddrs \ {caller, to} :
                     Bal(storage', a) = Bal(storage, a)
              /\ AllowancesUnchanged]_vars

\* A transfer succeeded while an allowance entry was stored and the
\* sender kept part of its balance.
C10_Witness ==
    /\ IsHandled("Transfer")
    /\ last.res.ok
    /\ Bal(storage, Addr(last.sender)) > 0
    /\ \E o \in CanonicalAddrs, sp \in CanonicalAddrs :
           AllowanceEntry(storage, o, sp).some

\* C11 as stated: every transfer with value > Balance(caller) is rejected
\* with Underflow, and no rejected transfer writes anything.
C11_Original ==
    [][Handled("Transfer")
       => /\ last'.msg.value > Bal(storage, Addr(last'.sender))
                => Failed(UnderflowErrs)
          /\ ~last'.res.ok => (LedgerUnchanged /\ storage' = storage)]_vars

\* C11 amended: a transfer with value > Balance(caller) is always rejected,
\* with Underflow when the recipient resolves and is not the caller; no
\* rejected transfer changes a balance or writes anything.
C11_TransferUnderflow ==
    [][Handled("Transfer")
       => LET caller == Addr(last'.sender)
              value == last'.msg.value
          IN  /\ value > Bal(storage, caller) => ~last'.res.ok
              /\ (/\ value > Bal(storage, caller)
                  /\ Resolves(last'.msg.to)
                  /\ Addr(last'.msg.to) # caller)
                    => Failed(UnderflowErrs)
              /\ ~last'.res.ok => (LedgerUnchanged /\ storage' = storage)]_vars

\* A transfer of more than the sender's positive balance was rejected.
C11_Witness ==
    /\ IsHandled("Transfer")
    /\ ~last.res.ok
    /\ last.res.err \in UnderflowErrs
    /\ Bal(storage, Addr(last.sender)) > 0
    /\ last.msg.value > Bal(storage, Addr(last.sender))

\* C12: a transfer to the caller itself, a transfer_from whose caller is
\* `from`, a transfer_from whose `from` is `to`, and an approve whose spender
\* is the caller each return an error and leave every balance, the total
\* supply and every allowance unchanged.
C12_SelfReferentialRejected ==
    [][(\/ Handled("Transfer") /\ last'.sender = last'.msg.to
        \/ Handled("TransferFrom") /\ last'.sender = last'.msg.from
        \/ Handled("TransferFrom") /\ last'.msg.from = last'.msg.to
        \/ Handled("Approve") /\ last'.sender = last'.msg.spender)
       => (/\ ~last'.res.ok
           /\ storage' = storage
           /\ LedgerUnchanged
           /\ AllowancesUnchanged)]_vars

\* A transfer to the caller itself, of an amount the caller holds, was
\* rejected.
C12_Witness ==
    /\ IsHandled("Transfer")
    /\ last.sender = last.msg.to
    /\ last.msg.value > 0
    /\ Bal(storage, Addr(last.sender)) >= last.msg.value
    /\ ~last.res.ok
    /\ last.res.err \in InvalidArgumentErrs

\* The amount a stored allowance entry holds, as set_allowance encoded it;
\* 0 when the pair has no entry.
StoredAllowance(s, owner, spender) ==
    LET bytes == AllowanceEntry(s, owner, spender)
    IN  IF bytes.some THEN deserialize_Allowance(bytes.val).val.amount ELSE 0

\* A request whose addresses all resolve.
AllResolve(humans) == \A h \in humans : Resolves(h)

\* C13: for caller # spender and value > 0, approve succeeds and afterwards
\* the allowance lookup for (caller, spender) returns the previous
\* allowance plus value, capped at the maximum, also when the pair already
\* has an entry.
C13_ApprovalsCumulative ==
    [][(/\ Handled("Approve")
        /\ last'.msg.value > 0
        /\ AllResolve({last'.sender, last'.msg.spender})
        /\ last'.sender # last'.msg.spender)
       => LET owner == last'.sender
              spender == last'.msg.spender
              previous == StoredAllowance(storage, Addr(owner), Addr(spender))
          IN  /\ last'.res.ok
              /\ handle(storage', Creator, AllowanceMsg(owner, spender)).res
                    = Ok([type    |-> "Allowance",
                          owner   |-> owner,
                          spender |-> spender,
                          value   |-> saturating_add(previous, last'.msg.value)])]_vars

\* C14: an approve with value > 0 and caller # spender never returns an
\* error, and when the current allowance plus value exceeds the maximum the
\* stored allowance becomes exactly the maximum.
C14_ApproveSaturates ==
    [][(/\ Handled("Approve")
        /\ last'.msg.value > 0
        /\ AllResolve({last'.sender, last'.msg.spender})
        /\ last'.sender # last'.msg.spender)
       => LET owner == Addr(last'.sender)
              spender == Addr(last'.msg.spender)
              current == StoredAllowance(storage, owner, spender)
          IN  /\ last'.res.ok
              /\ current + last'.msg.value > U128_MAX
                    => StoredAllowance(storage', owner, spender) = U128_MAX]_vars

\* C15: a transfer_from with caller # from, from # to,
\* 0 < value <= Allowance(from, caller) and value <= Balance(from) succeeds
\* and decreases the allowance and the balance of `from` by exactly value and
\* increases the balance of `to` by exactly value.
C15_TransferFromMoves ==
    [][(/\ Handled("TransferFrom")
        /\ AllResolve({last'.sender, last'.msg.from, last'.msg.to})
        /\ last'.sender # last'.msg.from
        /\ last'.msg.from # last'.msg.to
        /\ last'.msg.value > 0
        /\ last'.msg.value
              <= StoredAllowance(storage, Addr(last'.msg.from), Addr(last'.sender))
        /\ last'.msg.value <= Bal(storage, Addr(last'.msg.from)))
       => LET caller == Addr(last'.sender)
              from == Addr(last'.msg.from)
              to == Addr(last'.msg.to)
              value == last'.msg.value
          IN  /\ last'.res.ok
              /\ StoredAllowance(storage', from, caller)
                    = StoredAllowance(storage, from, caller) - value
              /\ Bal(storage', from) = Bal(storage, from) - value
              /\ Bal(storage', to) = Bal(storage, to) + value]_vars

InsufficientAllowanceErrs == {"Not enough allowance"}

\* C16: a transfer_from with value > Allowance(from, caller) (caller # from,
\* from # to) fails with InsufficientAllowance, not with a decode or balance
\* error, and changes nothing.
C16_InsufficientAllowance ==
    [][(/\ Handled("TransferFrom")
        /\ AllResolve({last'.sender, last'.msg.from, last'.msg.to})
        /\ last'.sender # last'.msg.from
        /\ last'.msg.from # last'.msg.to
        /\ last'.msg.value
              > StoredAllowance(storage, Addr(last'.msg.from), Addr(last'.sender)))
       => (/\ Failed(InsufficientAllowanceErrs)
           /\ storage' = storage
           /\ LedgerUnchanged
           /\ AllowancesUnchanged)]_vars

\* Constants records to store: those init can build, and one with empty
\* strings.
ConstantsValues ==
    {[name |-> m.name, symbol |-> m.symbol, decimals |-> m.decimals, owner |-> o] :
        m \in InitMsgs \cup {InitMsg(<<>>, <<>>, 0)}, o \in CanonicalAddrs}

\* constants, total_supply and balance return what was last set, on top of
\* any store the contract reaches.
StoredValuesReadBack ==
    /\ \A c \in ConstantsValues :
           constants(set_constants(storage, c)) = Ok(c)
    /\ \A v \in 0 .. U128_MAX :
           total_supply(set_total_supply(storage, v)) = Ok(v)
    /\ \A a \in CanonicalAddrs, v \in 0 .. U128_MAX :
           balance(set_balance(storage, a, v), a) = Ok(v)

\* C17: what is written to the store is read back unchanged: get_allowance
\* after set_allowance(owner, spender, {amount: a}) returns Ok with amount a,
\* for every amount a; constants() after set_constants(c) returns c;
\* total_supply() and balance() return the value last set.
C17_RoundTrip ==
    /\ \A o \in CanonicalAddrs, sp \in CanonicalAddrs, a \in 0 .. U128_MAX :
           get_allowance(set_allowance(storage, o, sp, [amount |-> a]), o, sp)
               = Ok([amount |-> a])
    /\ StoredValuesReadBack

\* Raw stored balance entry of a canonical address.
BalanceEntry(s, a) == prefixed_get(s, NAMESPACE_BALANCES, a)

\* C18: balance_of of an address without a stored balance entry returns 0,
\* and the allowance lookup of a pair without a stored allowance entry
\* returns 0, both as successful results.
C18_ZeroDefaults ==
    /\ [][(/\ last'.kind = "query"
           /\ last'.msg.type = "BalanceOf"
           /\ Resolves(last'.msg.address)
           /\ ~BalanceEntry(storage, Addr(last'.msg.address)).some)
          => last'.res = Ok([type |-> "BalanceOf", balance |-> 0])]_vars
    /\ [][(/\ Handled("Allowance")
           /\ AllResolve({last'.msg.owner, last'.msg.spender})
           /\ ~AllowanceEntry(storage, Addr(last'.msg.owner),
                              Addr(last'.msg.spender)).some)
          => last'.res = Ok([type    |-> "Allowance",
                             owner   |-> last'.msg.owner,
                             spender |-> last'.msg.spender,
                             value   |-> 0])]_vars

\* The allowance lookup of a pair without an entry returned 0 while the
\* reverse pair had an entry and a balance entry was missing as well.
C18_Witness ==
    /\ IsHandled("Allowance")
    /\ AllResolve({last.msg.owner, last.msg.spender})
    /\ ~AllowanceEntry(storage, Addr(last.msg.owner), Addr(last.msg.spender)).some
    /\ AllowanceEntry(storage, Addr(last.msg.spender), Addr(last.msg.owner)).some
    /\ last.res.ok
    /\ last.res.val.value = 0
    /\ \E a \in CanonicalAddrs :
           /\ ~BalanceEntry(storage, a).some
           /\ query(storage, BalanceOfMsg(CHOOSE h \in HumanAddrs :
                                              Resolves(h) /\ Addr(h) = a))
                  = Ok([type |-> "BalanceOf", balance |-> 0])

\* The step is a read: a query, or the allowance lookup dispatched by handle.
IsRead == last'.kind = "query" \/ Handled("Allowance")

\* C19: name, symbol, decimals, total_supply, balance_of and the allowance
\* lookup leave every persisted entry unchanged, so the same read repeated
\* right after returns the same result.
C19_ReadsDoNotMutate ==
    [][IsRead
       => (/\ storage' = storage
           /\ LedgerUnchanged
           /\ AllowancesUnchanged
           /\ constants(storage') = constants(storage)
           /\ last'.kind = "query"
                 => query(storage', last'.msg) = last'.res
           /\ Handled("Allowance")
                 => handle(storage', last'.sender, last'.msg).res = last'.res)]_vars

\* balance_of returned a positive balance while an allowance entry was
\* stored.
C19_Witness ==
    /\ last.kind = "query"
    /\ last.msg.type = "BalanceOf"
    /\ last.res.ok
    /\ last.res.val.balance > 0
    /\ \E o \in CanonicalAddrs, sp \in CanonicalAddrs :
           AllowanceEntry(storage, o, sp).some

----------------------------------------------------------------------------
(* The contract on a store it is handed: the store is an input of every   *)
(* entry point, and the bytes found under a balance or the total supply   *)
(* key are whatever the store holds.                                      *)

\* Longest byte string found under a key.
MaxBytesLen == 17

\* Byte strings a key can hold: u128 encodings cut or padded to any length
\* up to MaxBytesLen.
StoredBytes == {to_be_bytes_n(v, n) : v \in Values, n \in 0 .. MaxBytesLen}

\* The initialised store with the bytes of one balance entry or of the
\* total supply entry replaced.
StoresWithBytes(s) ==
    {prefixed_set(s, NAMESPACE_BALANCES, a, b) :
        a \in CanonicalAddrs, b \in StoredBytes}
    \cup {prefixed_set(s, NAMESPACE_STORAGE, KEY_TOTAL_SUPPLY, b) :
        b \in StoredBytes}

InitStored ==
    \E msg \in InitMsgs :
        /\ storage \in StoresWithBytes(init(EmptyStorage, Creator, msg).storage)
        /\ last = NoCall

NextStored ==
    \/ Return
    \/ Query
    \/ BurnFrom
    \/ Transfer

SpecStored == InitStored /\ [][NextStored]_vars

\* C20: every failure is returned to the caller as an error value and no
\* operation aborts; reading a balance or a total supply whose stored bytes
\* are not exactly 16 bytes long returns the decode error.
C20_ErrorsNotPanics ==
    /\ ~IsPanic(last.res)
    /\ (/\ last.kind = "query"
        /\ last.msg.type = "TotalSupply"
        /\ Len(prefixed_get(storage, NAMESPACE_STORAGE, KEY_TOTAL_SUPPLY).val)
              # U128_BYTES)
          => last.res = Err("corrupted data, can not convert to u128")
    /\ (/\ last.kind = "query"
        /\ last.msg.type = "BalanceOf"
        /\ Resolves(last.msg.address)
        /\ BalanceEntry(storage, Addr(last.msg.address)).some
        /\ Len(BalanceEntry(storage, Addr(last.msg.address)).val) # U128_BYTES)
          => last.res = Err("corrupted data, can not convert to u128")

\* Reading the total supply alone: bytes of the wrong length are reported
\* as the decode error.
TotalSupplyDecodeError ==
    (/\ last.kind = "query"
     /\ last.msg.type = "TotalSupply"
     /\ Len(prefixed_get(storage, NAMESPACE_STORAGE, KEY_TOTAL_SUPPLY).val)
           # U128_BYTES)
       => last.res = Err("corrupted data, can not convert to u128")

----------------------------------------------------------------------------
(* Initialization, the Constants record and the namespaces *)

\* Init messages to try: those of the state machine and one with empty
\* strings and zero decimals.
InitInputs == InitMsgs \cup {InitMsg(<<>>, <<>>, 0)}

\* The store s is what initialization by caller with msg must leave: the
\* Constants record of msg owned by caller, a total supply of 0 that
\* total_supply() returns, and deposits open to caller and to nobody else.
InitializedAs(s, caller, msg) ==
    /\ constants(s) = Ok([name     |-> msg.name,
                          symbol   |-> msg.symbol,
                          decimals |-> msg.decimals,
                          owner    |-> Addr(caller)])
    /\ total_supply(s) = Ok(0)
    /\ query(s, [type |-> "TotalSupply"])
           = Ok([type |-> "TotalSupply", total_supply |-> 0])
    /\ \A sender \in Senders, to \in HumanAddrs, value \in Values \ {0} :
           Resolves(to)
              => (handle(s, sender, DepositToMsg(to, value)).res.ok
                     <=> sender = caller)

\* C21: initialization by a caller stores a Constants record owned by the
\* caller with the given name, symbol and decimals, and a total supply of 0;
\* right afterwards total_supply() returns 0 and the caller, and only the
\* caller, can deposit.
C21_Initialization ==
    last.kind = "init"
       => /\ last.res.ok
          /\ InitializedAs(storage, last.sender, last.msg)
          /\ \A caller \in Senders, msg \in InitInputs :
                 LET r == init(EmptyStorage, caller, msg)
                 IN  r.res.ok /\ InitializedAs(r.storage, caller, msg)

\* The contract has just been initialised by the creator.
C21_Witness ==
    /\ last.kind = "init"
    /\ last.res.ok
    /\ ContractOwner(storage) = Addr(last.sender)
    /\ Supply(storage) = 0

\* Raw stored Constants entry.
ConstantsEntry(s) == prefixed_get(s, NAMESPACE_STORAGE, KEY_CONSTANTS)

\* C22: the Constants record written by initialization is never deleted,
\* replaced or modified: it is there in every reachable state, with the
\* initialising sender as owner, and no step changes its name, symbol,
\* decimals or owner.
C22_ConstantsImmutable ==
    /\ [](/\ ConstantsEntry(storage).some
          /\ constants(storage).ok
          /\ constants(storage).val \in ConstantsValues
          /\ ContractOwner(storage) = Addr(Creator))
    /\ [][/\ ConstantsEntry(storage') = ConstantsEntry(storage)
          /\ constants(storage') = constants(storage)]_vars

\* A burn succeeded while an allowance entry was stored, long after
\* initialization, and the Constants record still names the creator.
C22_Witness ==
    /\ IsHandled("BurnFrom")
    /\ last.res.ok
    /\ \E o \in CanonicalAddrs, sp \in CanonicalAddrs :
           AllowanceEntry(storage, o, sp).some
    /\ constants(storage).ok
    /\ ContractOwner(storage) = Addr(Creator)

\* Address bytes to try as keys: the canonical addresses of the state
\* machine, the empty address, the two config keys used as addresses, and
\* addresses whose bytes look like a length prefix followed by an address.
AnyAddrs ==
    CanonicalAddrs
        \cup {<<>>, KEY_CONSTANTS, KEY_TOTAL_SUPPLY, <<0, 1, 1>>, <<1, 0, 1, 1>>}

\* Raw stored total supply entry.
TotalSupplyEntry(s) == prefixed_get(s, NAMESPACE_STORAGE, KEY_TOTAL_SUPPLY)

\* What is read under every key of each namespace.
ViewConfig(s) == <<ConstantsEntry(s), TotalSupplyEntry(s)>>

ViewBalances(s) == [a \in AnyAddrs |-> BalanceEntry(s, a)]

ViewAllowances(s) ==
    [p \in AnyAddrs \X AnyAddrs |-> AllowanceEntry(s, p[1], p[2])]

\* C23: on every store the contract reaches (each is seen with no response
\* pending), a write to a balance, to an allowance, to the constants or to
\* the total supply leaves what is read under every key of the other
\* namespaces unchanged, and a write to the allowance of one (owner, spender)
\* pair leaves the entry of every other pair unchanged, for address bytes of
\* varied content and length.
C23_NamespacesDisjoint ==
    last = NoCall
       => /\ \A a \in AnyAddrs, v \in Values :
                 LET t == set_balance(storage, a, v)
                 IN  /\ ViewConfig(t) = ViewConfig(storage)
                     /\ ViewAllowances(t) = ViewAllowances(storage)
          /\ \A o \in AnyAddrs, sp \in AnyAddrs, v \in Values :
                 LET t == set_allowance(storage, o, sp, [amount |-> v])
                 IN  /\ ViewConfig(t) = ViewConfig(storage)
                     /\ ViewBalances(t) = ViewBalances(storage)
                     /\ \A p \in (AnyAddrs \X AnyAddrs) \ {<<o, sp>>} :
                            AllowanceEntry(t, p[1], p[2])
                                = AllowanceEntry(storage, p[1], p[2])
          /\ \A c \in ConstantsValues :
                 LET t == set_constants(storage, c)
                 IN  /\ ViewBalances(t) = ViewBalances(storage)
                     /\ ViewAllowances(t) = ViewAllowances(storage)
                     /\ TotalSupplyEntry(t) = TotalSupplyEntry(storage)
          /\ \A v \in Values :
                 LET t == set_total_supply(storage, v)
                 IN  /\ ViewBalances(t) = ViewBalances(storage)
                     /\ ViewAllowances(t) = ViewAllowances(storage)
                     /\ ConstantsEntry(t) = ConstantsEntry(storage)

\* A store with a positive balance and allowance entries in both directions
\* between two accounts, one address being a prefix of the other.
C23_Witness ==
    /\ last = NoCall
    /\ \E o \in CanonicalAddrs, sp \in CanonicalAddrs :
           /\ o # sp
           /\ AllowanceEntry(storage, o, sp).some
           /\ AllowanceEntry(storage, sp, o).some
           /\ Bal(storage, o) > 0

\* C24: in every reachable state each account's balance is at most the
\* total supply; so a deposit never fails at its balance overflow check,
\* which comes after the total supply overflow check, and a burn never fails
\* at its total supply underflow check, which comes after the balance
\* underflow check.
C24_BalanceAtMostSupply ==
    /\ [](\A a \in CanonicalAddrs : Bal(storage, a) <= Supply(storage))
    /\ [][Handled("DepositTo") => ~Failed({"Account balance overflow"})]_vars
    /\ [][Handled("BurnFrom") => ~Failed({"Total supply underflow"})]_vars

\* A deposit brought one account's balance and the total supply to the
\* maximum together.
C24_Witness ==
    /\ IsHandled("DepositTo")
    /\ last.res.ok
    /\ Bal(storage, Addr(last.msg.to)) = Supply(storage)
    /\ Supply(storage) = U128_MAX

\* C25: an account's balance decreases only in a step authorised for it: a
\* transfer called by the account, a burn from the account called by the
\* account or by the contract owner, or a transfer_from out of the account
\* whose caller held an allowance from it of at least the amount moved.
C25_DecreaseOnlyAuthorised ==
    [][\A a \in CanonicalAddrs :
          Bal(storage', a) < Bal(storage, a)
             => \/ /\ Handled("Transfer")
                   /\ Addr(last'.sender) = a
                \/ /\ Handled("BurnFrom")
                   /\ Addr(last'.msg.from) = a
                   /\ \/ Addr(last'.sender) = a
                      \/ Addr(last'.sender) = ContractOwner(storage)
                \/ /\ Handled("TransferFrom")
                   /\ Addr(last'.msg.from) = a
                   /\ StoredAllowance(storage, a, Addr(last'.sender))
                         >= Bal(storage, a) - Bal(storage', a)]_vars

\* The contract owner burnt tokens of another account.
C25_Witness ==
    /\ IsHandled("BurnFrom")
    /\ last.res.ok
    /\ Addr(last.sender) = ContractOwner(storage)
    /\ Addr(last.msg.from) # Addr(last.sender)

\* C26: approve changes at most the allowance entry of (caller, spender): it
\* leaves every balance, the total supply, the Constants record and the
\* entry of every other pair, the reverse pair included, unchanged, and its
\* outcome is the same whatever the caller's balance; deposit, burn and
\* transfer change no allowance entry.
C26_ApproveFrame ==
    /\ [][Handled("Approve")
          => IF ~last'.res.ok THEN storage' = storage
             ELSE LET caller == Addr(last'.sender)
                      spender == Addr(last'.msg.spender)
                  IN  /\ LedgerUnchanged
                      /\ ViewConfig(storage') = ViewConfig(storage)
                      /\ ViewBalances(storage') = ViewBalances(storage)
                      /\ \A p \in (CanonicalAddrs \X CanonicalAddrs)
                                     \ {<<caller, spender>>} :
                             AllowanceEntry(storage', p[1], p[2])
                                 = AllowanceEntry(storage, p[1], p[2])
                      /\ \A v \in 0 .. U128_MAX :
                             LET r == handle(set_balance(storage, caller, v),
                                             last'.sender, last'.msg)
                             IN  /\ r.res = last'.res
                                 /\ AllowanceEntry(r.storage, caller, spender)
                                        = AllowanceEntry(storage', caller, spender)]_vars
    /\ [][(Handled("DepositTo") \/ Handled("BurnFrom") \/ Handled("Transfer"))
          => AllowancesUnchanged]_vars

\* An account without tokens approved a spender that had already approved
\* it, while another account held tokens.
C26_Witness ==
    /\ IsHandled("Approve")
    /\ last.res.ok
    /\ Bal(storage, Addr(last.sender)) = 0
    /\ AllowanceEntry(storage, Addr(last.msg.spender), Addr(last.sender)).some
    /\ StoredAllowance(storage, Addr(last.sender), Addr(last.msg.spender))
           = last.msg.value
    /\ Supply(storage) > 0

====
